---- MODULE Spec2Model ----
(***************************************************************************)
(* Model of src/bot.py (ai-mirror-bot): the per-user memory kept in the    *)
(* module-level maps USER_SUMMARY and USER_TURNS, and the handlers that    *)
(* read and write it (handle_message, _update_memory, _get_history, reset, *)
(* summary_cmd).  start and mirror_cmd send a fixed text and touch neither *)
(* map; they are left out.                                                 *)
(*                                                                         *)
(* Texts are sequences of one-character strings, so that str.strip() and   *)
(* string concatenation are computed rather than assumed.  The long fixed  *)
(* texts of the program (SYSTEM_PROMPT, the compression instruction, the   *)
(* canned replies) are abbreviated to one-token sequences.                 *)
(*                                                                         *)
(* Scheduling.  The handlers are coroutines on one event loop.  The calls  *)
(* client.chat.completions.create(...) are synchronous (OpenAI, not        *)
(* AsyncOpenAI) and _update_memory contains no await, so the only point at *)
(* which handle_message can be suspended is `await reply_text` (line 149). *)
(* Lines 129-147 are therefore one atomic step, line 149 a second and      *)
(* lines 151-155 a third.  Handlers of different messages are allowed to   *)
(* interleave at that suspension point.                                    *)
(***************************************************************************)
EXTENDS Integers, Sequences, FiniteSets, TLC

(* ---------------------------- bounds ----------------------------------- *)
\* number of inbound text messages handled in a behaviour
MaxMsgs == 5
\* longest turn buffer a pre-populated store holds in SpecSeeded
MaxSeedTurns == 11
(* ------------------------ program constants ---------------------------- *)
MAX_TURNS == 8
COMPRESS_THRESHOLD == 10
COMPRESS_WINDOW == 10
KEEP_AFTER_COMPRESS == 6
\* temperatures, in tenths
REPLY_TEMPERATURE == 3
COMPRESS_TEMPERATURE == 2

Users == {1, 2}
\* handle_message invocations that can be in flight at once
Handlers == {1, 2}

SYSTEM_PROMPT == <<"SYSTEM_PROMPT">>
SUMMARY_PREFIX == <<"SUMMARY_PREFIX">>
COMPRESS_PROMPT == <<"COMPRESS_PROMPT">>
SUMMARY_PLACEHOLDER == <<"(", "empty", ")">>
SUMMARY_HEADER == <<"SUMMARY_HEADER", "\n">>
RESET_REPLY == <<"RESET_REPLY">>

(* ------------------------------ inputs --------------------------------- *)
\* update.message.text of the n-th inbound message of user u: every message
\* carries a text of its own, padded with whitespace
InboundTexts(u, n) == { <<" ", ToString(u), ToString(n), "\n">> }
\* outcomes of client.chat.completions.create: the call raises, the response
\* carries no content (None, so .strip() raises), or it carries a text
ENGINE_ERROR == <<"ENGINE_ERROR">>
ENGINE_NONE == <<"ENGINE_NONE">>
EngineFailures == {ENGINE_ERROR, ENGINE_NONE}
\* the text of the response to the n-th message of user u
ReplyContents(u, n) == { <<" ", "r", ToString(u), ToString(n), "\n">> }
CompressContents == { <<"s", " ">>, <<" ">> }

(* ------------------------------ strings -------------------------------- *)
Whitespace == {" ", "\n"}

RECURSIVE LStrip(_)
LStrip(s) ==
    IF s # <<>> /\ Head(s) \in Whitespace THEN LStrip(Tail(s)) ELSE s

RECURSIVE RStrip(_)
RStrip(s) ==
    IF s # <<>> /\ s[Len(s)] \in Whitespace
    THEN RStrip(SubSeq(s, 1, Len(s) - 1))
    ELSE s

\* str.strip()
Strip(s) == RStrip(LStrip(s))

\* seq[-n:] for n > 0
LastN(seq, n) ==
    IF Len(seq) <= n THEN seq ELSE SubSeq(seq, Len(seq) - n + 1, Len(seq))

(* ------------------------------- state --------------------------------- *)
VARIABLES
    USER_SUMMARY,   \* dict user_id -> summary text
    USER_TURNS,     \* dict user_id -> list of <<role, text>>
    pc,             \* position of each handle_message invocation in flight
    user_id,        \* its local user_id
    resp,           \* the content of the response it received (line 138)
    answer,         \* its local answer
    sent,           \* the replies the transport has delivered for it
    count,          \* history: number of text messages each user has sent
    streak,         \* history: answered messages of a user since its session
                    \* was absent, -1 once a message of the user has failed
    engine,         \* the last request sent to the completion engine
    calls,          \* number of requests sent to the completion engine
    last,           \* the handler step that ran last, and how it ended
    ctx,            \* messages returned by the last _get_history call
    cmdReply        \* text replied by the last command handler

vars == <<USER_SUMMARY, USER_TURNS, pc, user_id, resp, answer, sent, count,
          streak, engine, calls, last, ctx, cmdReply>>

store == <<USER_SUMMARY, USER_TURNS>>
locals == <<pc, user_id, resp, answer, sent>>

NoUser == 0

Msg(role, content) == [role |-> role, content |-> content]

\* dict.get(key, default)
DictGet(d, k, default) == IF k \in DOMAIN d THEN d[k] ELSE default

\* d[k] = v
DictSet(d, k, v) == [x \in DOMAIN d \cup {k} |-> IF x = k THEN v ELSE d[x]]

\* d.pop(k, None)
DictPop(d, k) == [x \in DOMAIN d \ {k} |-> d[x]]

EmptyDict == [x \in {} |-> <<>>]

NoRequest == [kind |-> "none", messages |-> <<>>, temperature |-> 0]

RECURSIVE Total(_, _)
Total(f, S) ==
    IF S = {} THEN 0
    ELSE LET x == CHOOSE y \in S : TRUE IN f[x] + Total(f, S \ {x})

\* the invocation returns or raises: its frame is gone
Finish(h) ==
    /\ pc' = [pc EXCEPT ![h] = "idle"]
    /\ user_id' = [user_id EXCEPT ![h] = NoUser]
    /\ resp' = [resp EXCEPT ![h] = <<>>]
    /\ answer' = [answer EXCEPT ![h] = <<>>]
    /\ sent' = [sent EXCEPT ![h] = <<>>]

(* --------------------------- _get_history ------------------------------ *)
RECURSIVE AppendTurns(_, _)
\* for role, content in turns: messages.append({...})
AppendTurns(messages, turns) ==
    IF turns = <<>> THEN messages
    ELSE AppendTurns(Append(messages, Msg(Head(turns)[1], Head(turns)[2])),
                     Tail(turns))

\* variant: the summary message is appended after the turns
GetHistory_SummaryLast(summaries, turnsOf, u) ==
    LET summary == DictGet(summaries, u, <<>>)
        turns == DictGet(turnsOf, u, <<>>)
        m1 == AppendTurns(<<Msg("system", SYSTEM_PROMPT)>>, turns)
    IN IF summary # <<>>
       THEN Append(m1, Msg("system", SUMMARY_PREFIX \o summary))
       ELSE m1

GetHistory(summaries, turnsOf, u) ==
    LET summary == DictGet(summaries, u, <<>>)
        turns == DictGet(turnsOf, u, <<>>)
        m0 == <<Msg("system", SYSTEM_PROMPT)>>
        m1 == IF summary # <<>>
              THEN Append(m0, Msg("system", SUMMARY_PREFIX \o summary))
              ELSE m0
    IN AppendTurns(m1, turns)

(* --------------------------- handle_message ---------------------------- *)
\* variant: the append is not followed by the truncation
StoreTurn_NoTrim(turns, role, text) == Append(turns, <<role, text>>)

\* list.append(turn) followed by [-MAX_TURNS:]
StoreTurn(turns, role, text) == LastN(Append(turns, <<role, text>>), MAX_TURNS)

\* the store after lines 132-134
WithUserTurn(u, raw) ==
    DictSet(USER_TURNS, u,
            StoreTurn(DictGet(USER_TURNS, u, <<>>), "user", Strip(raw)))

\* variant: the user turn is taken back when the engine call fails
AfterEngineFailure_RolledBack(u, raw) == USER_TURNS

\* the store when the call of line 138 (or .strip() of line 143) raises:
\* nothing undoes lines 132-134
AfterEngineFailure(u, raw) == WithUserTurn(u, raw)

\* the request of lines 136-142
ReplyRequest(turnsOf, u) ==
    [kind |-> "reply",
     messages |-> GetHistory(USER_SUMMARY, turnsOf, u),
     temperature |-> REPLY_TEMPERATURE]

\* lines 129-147: store the user turn, build the context, call the engine,
\* store the assistant turn; the invocation is then suspended in reply_text
HandleMessage(h, u, raw, outcome) ==
    /\ pc[h] = "idle"
    /\ \A g \in Handlers : g < h => pc[g] # "idle"
    /\ Total(count, Users) < MaxMsgs
    /\ raw \in InboundTexts(u, count[u] + 1)
    /\ count' = [count EXCEPT ![u] = @ + 1]
    /\ engine' = ReplyRequest(WithUserTurn(u, raw), u)
    /\ calls' = calls + 1
    /\ IF outcome \in EngineFailures
       THEN /\ USER_TURNS' = AfterEngineFailure(u, raw)
            /\ streak' = [streak EXCEPT ![u] = -1]
            /\ last' = [op |-> "message", user |-> u, result |-> "raised"]
            /\ UNCHANGED locals
       ELSE /\ USER_TURNS' =
                  DictSet(USER_TURNS, u,
                          StoreTurn(WithUserTurn(u, raw)[u], "assistant",
                                    Strip(outcome)))
            /\ streak' = [streak EXCEPT ![u] = IF @ < 0 THEN @ ELSE @ + 1]
            /\ pc' = [pc EXCEPT ![h] = "reply"]
            /\ user_id' = [user_id EXCEPT ![h] = u]
            /\ resp' = [resp EXCEPT ![h] = outcome]
            /\ answer' = [answer EXCEPT ![h] = Strip(outcome)]
            /\ last' = [op |-> "message", user |-> u, result |-> "suspended"]
            /\ UNCHANGED sent
    /\ ctx' = <<>>
    /\ cmdReply' = <<>>
    /\ UNCHANGED USER_SUMMARY

\* variant: the memory update is reached although the transport dropped the text
ReplyText_Lost(h, delivered) ==
    /\ pc[h] = "reply"
    /\ pc' = [pc EXCEPT ![h] = "memory"]
    /\ sent' = [sent EXCEPT ![h] = IF delivered THEN Append(@, answer[h]) ELSE @]
    /\ last' = [op |-> "reply_text", user |-> user_id[h], result |-> "delivered"]
    /\ ctx' = <<>>
    /\ cmdReply' = <<>>
    /\ UNCHANGED <<store, user_id, resp, answer, streak, count, engine, calls>>

\* line 149: await update.message.reply_text(answer); the transport delivers
\* the text or raises
ReplyText(h, delivered) ==
    /\ pc[h] = "reply"
    /\ IF delivered
       THEN /\ sent' = [sent EXCEPT ![h] = Append(@, answer[h])]
            /\ pc' = [pc EXCEPT ![h] = "memory"]
            /\ last' = [op |-> "reply_text", user |-> user_id[h],
                        result |-> "delivered"]
            /\ UNCHANGED <<user_id, resp, answer, streak>>
       ELSE /\ Finish(h)
            /\ streak' = [streak EXCEPT ![user_id[h]] = -1]
            /\ last' = [op |-> "reply_text", user |-> user_id[h],
                        result |-> "raised"]
    /\ ctx' = <<>>
    /\ cmdReply' = <<>>
    /\ UNCHANGED <<store, count, engine, calls>>

(* --------------------------- _update_memory ---------------------------- *)
\* variant: the new summary replaces the old one
JoinSummary_Replace(prev, new_summary) == new_summary

\* (prev + "\n" + new_summary).strip()
JoinSummary(prev, new_summary) == Strip(prev \o <<"\n">> \o new_summary)

\* turns[-6:]
KeptTurns(turns) == LastN(turns, KEEP_AFTER_COMPRESS)

\* variant: compression starts at the cap of the buffer
Compresses_AtCap(turns) == Len(turns) >= MAX_TURNS

\* if len(turns) < 10: return
Compresses(turns) == Len(turns) >= COMPRESS_THRESHOLD

\* the request of lines 109-119
CompressRequest(turns) ==
    [kind |-> "compress",
     messages |-> AppendTurns(<<Msg("system", COMPRESS_PROMPT)>>,
                              LastN(turns, COMPRESS_WINDOW)),
     temperature |-> COMPRESS_TEMPERATURE]

\* lines 122-126, new_summary being the stripped content of the response
Compressed(u, turns, new_summary) ==
    /\ USER_SUMMARY' =
         DictSet(USER_SUMMARY, u,
                 JoinSummary(DictGet(USER_SUMMARY, u, <<>>), new_summary))
    /\ USER_TURNS' = DictSet(USER_TURNS, u, KeptTurns(turns))

\* variant: the buffer is trimmed before the engine is called
CompressFailed_Trimmed(u) ==
    /\ USER_TURNS' = DictSet(USER_TURNS, u, KeptTurns(DictGet(USER_TURNS, u, <<>>)))
    /\ UNCHANGED USER_SUMMARY

\* an exception of _update_memory, caught at lines 154-155
CompressFailed(u) == UNCHANGED store

\* lines 151-155: try: await _update_memory(user_id) except Exception: log;
\* then handle_message returns
UpdateMemory(h) ==
    /\ pc[h] = "memory"
    /\ Finish(h)
    /\ LET u == user_id[h]
           turns == DictGet(USER_TURNS, u, <<>>)
       IN IF ~Compresses(turns)
          THEN /\ last' = [op |-> "update_memory", user |-> u,
                           result |-> "skipped"]
               /\ UNCHANGED <<store, engine, calls>>
          ELSE \E outcome \in EngineFailures \cup CompressContents :
               /\ engine' = CompressRequest(turns)
               /\ calls' = calls + 1
               /\ IF outcome \in EngineFailures
                  THEN /\ CompressFailed(u)
                       /\ last' = [op |-> "update_memory", user |-> u,
                                   result |-> "caught"]
                  ELSE /\ Compressed(u, turns, Strip(outcome))
                       /\ last' = [op |-> "update_memory", user |-> u,
                                   result |-> "compressed"]
    /\ ctx' = <<>>
    /\ cmdReply' = <<>>
    /\ UNCHANGED <<count, streak>>

(* ------------------------------ commands ------------------------------- *)
\* variant: the summary is left behind
Reset_TurnsOnly(u) ==
    /\ USER_TURNS' = DictPop(USER_TURNS, u)
    /\ streak' = [streak EXCEPT ![u] = 0]
    /\ cmdReply' = RESET_REPLY
    /\ last' = [op |-> "reset", user |-> u, result |-> "returned"]
    /\ ctx' = <<>>
    /\ UNCHANGED <<USER_SUMMARY, locals, count, engine, calls>>

\* variant: the whole store is cleared
Reset_Everyone(u) ==
    /\ USER_SUMMARY' = EmptyDict
    /\ USER_TURNS' = EmptyDict
    /\ streak' = [streak EXCEPT ![u] = 0]
    /\ cmdReply' = RESET_REPLY
    /\ last' = [op |-> "reset", user |-> u, result |-> "returned"]
    /\ ctx' = <<>>
    /\ UNCHANGED <<locals, count, engine, calls>>

Reset(u) ==
    /\ USER_SUMMARY' = DictPop(USER_SUMMARY, u)
    /\ USER_TURNS' = DictPop(USER_TURNS, u)
    /\ streak' = [streak EXCEPT ![u] = 0]
    /\ cmdReply' = RESET_REPLY
    /\ last' = [op |-> "reset", user |-> u, result |-> "returned"]
    /\ ctx' = <<>>
    /\ UNCHANGED <<locals, count, engine, calls>>

SummaryCmd(u) ==
    /\ cmdReply' = SUMMARY_HEADER \o DictGet(USER_SUMMARY, u, SUMMARY_PLACEHOLDER)
    /\ last' = [op |-> "summary", user |-> u, result |-> "returned"]
    /\ ctx' = <<>>
    /\ UNCHANGED <<store, locals, count, streak, engine, calls>>

\* a call of _get_history(u) on the store as it stands
GetContext(u) ==
    /\ ctx' = GetHistory(USER_SUMMARY, USER_TURNS, u)
    /\ last' = [op |-> "get_history", user |-> u, result |-> "returned"]
    /\ cmdReply' = <<>>
    /\ UNCHANGED <<store, locals, count, streak, engine, calls>>

(* --------------------------- specifications ---------------------------- *)
Init ==
    /\ USER_SUMMARY = EmptyDict
    /\ USER_TURNS = EmptyDict
    /\ pc = [h \in Handlers |-> "idle"]
    /\ user_id = [h \in Handlers |-> NoUser]
    /\ resp = [h \in Handlers |-> <<>>]
    /\ answer = [h \in Handlers |-> <<>>]
    /\ sent = [h \in Handlers |-> <<>>]
    /\ count = [u \in Users |-> 0]
    /\ streak = [u \in Users |-> 0]
    /\ engine = NoRequest
    /\ calls = 0
    /\ last = [op |-> "boot", user |-> NoUser, result |-> "returned"]
    /\ ctx = <<>>
    /\ cmdReply = <<>>

Next ==
    \/ \E h \in Handlers, u \in Users :
          \E raw \in InboundTexts(u, count[u] + 1),
             outcome \in EngineFailures \cup ReplyContents(u, count[u] + 1) :
               HandleMessage(h, u, raw, outcome)
    \/ \E h \in Handlers, delivered \in BOOLEAN : ReplyText(h, delivered)
    \/ \E h \in Handlers : UpdateMemory(h)
    \/ \E u \in Users : Reset(u)
    \/ \E u \in Users : SummaryCmd(u)

Spec == Init /\ [][Next]_vars

(***************************************************************************)
(* SpecSeeded: the same operations from a pre-populated store, as a test   *)
(* that fills USER_TURNS and USER_SUMMARY directly sets it up, with one    *)
(* handle_message invocation suspended in reply_text and one more inbound  *)
(* message to come; _get_history can also be called on its own.  No        *)
(* behaviour of Spec holds COMPRESS_THRESHOLD turns or a summary, so this  *)
(* is where the compression branch of _update_memory and the summary       *)
(* branch of _get_history are exercised.                                   *)
(***************************************************************************)
\* a buffer of n turns, alternating user and assistant, each text its own
SeedTurns(u, n) ==
    [i \in 1..n |-> <<IF i % 2 = 1 THEN "user" ELSE "assistant",
                      <<ToString(u), "t", ToString(i)>> >>]

\* summaries are only ever stored stripped (line 123)
SeedSummaries == { <<"p">> }

\* the maps with entries for some of the users
SeedTurnDicts ==
    UNION { { d \in [D -> { SeedTurns(v, n) : v \in D, n \in 1..MaxSeedTurns }] :
                \A u \in D : d[u][1][2][1] = ToString(u) } : D \in SUBSET Users }

SeedSummaryDicts == UNION { [D -> SeedSummaries] : D \in SUBSET Users }

InitSeeded ==
    /\ USER_SUMMARY \in SeedSummaryDicts
    /\ USER_TURNS \in SeedTurnDicts
    /\ \E u \in Users :
         \E content \in ReplyContents(u, MaxMsgs - 1) :
            /\ pc = [h \in Handlers |-> IF h = 1 THEN "reply" ELSE "idle"]
            /\ user_id = [h \in Handlers |-> IF h = 1 THEN u ELSE NoUser]
            /\ resp = [h \in Handlers |-> IF h = 1 THEN content ELSE <<>>]
            /\ answer = [h \in Handlers |-> IF h = 1 THEN Strip(content) ELSE <<>>]
            /\ count = [v \in Users |-> IF v = u THEN MaxMsgs - 1 ELSE 0]
    /\ sent = [h \in Handlers |-> <<>>]
    /\ streak = [u \in Users |-> -1]
    /\ engine = NoRequest
    /\ calls = 0
    /\ last = [op |-> "boot", user |-> NoUser, result |-> "returned"]
    /\ ctx = <<>>
    /\ cmdReply = <<>>

NextSeeded ==
    \/ Next
    \/ \E u \in Users : GetContext(u)

SpecSeeded == InitSeeded /\ [][NextSeeded]_vars

(* ------------------------------ claims --------------------------------- *)
Turns(u) == DictGet(USER_TURNS, u, <<>>)
Summary(u) == DictGet(USER_SUMMARY, u, <<>>)
Range(seq) == { seq[i] : i \in 1..Len(seq) }
IsPrefix(p, q) == Len(p) <= Len(q) /\ SubSeq(q, 1, Len(p)) = p
InFlight(u) == \E h \in Handlers : user_id[h] = u
InstructionMsg == [role |-> "system", content |-> SYSTEM_PROMPT]

\* C1: after every step, the stored turn buffer of every user holds at most
\* MAX_TURNS (8) entries.
C1_TurnsBounded ==
    \A u \in DOMAIN USER_TURNS : Len(USER_TURNS[u]) <= MAX_TURNS

\* a user whose buffer is full after five answered messages (ten appends)
C1_Witness ==
    \E u \in DOMAIN USER_TURNS :
        Len(USER_TURNS[u]) = MAX_TURNS /\ streak[u] >= 5

\* C2: once a user has completed 5 successful exchanges in a row from an
\* absent session, the compression has fired: a compression request went to
\* the engine, the buffer is trimmed to its last 6 entries and the summary is
\* non-empty.
C2_CompressionAfterFiveExchanges ==
    \A u \in Users :
        (streak[u] = 5 /\ ~InFlight(u)) =>
            /\ calls > Total(count, Users)
            /\ Len(Turns(u)) = KEEP_AFTER_COMPRESS
            /\ Summary(u) # <<>>

\* C3: a step in which the engine call of the compression fails leaves
\* USER_TURNS and USER_SUMMARY as they were, and handle_message returns.
C3_CompressFailureKeepsSession ==
    [][ (last'.op = "update_memory" /\ last'.result = "caught") =>
          /\ USER_TURNS' = USER_TURNS
          /\ USER_SUMMARY' = USER_SUMMARY
          /\ engine'.kind = "compress"
          /\ \E h \in Handlers :
                pc[h] = "memory" /\ user_id[h] = last'.user /\ pc'[h] = "idle" ]_vars

\* a failed compression of a session that holds a summary and ten turns or more
C3_Witness ==
    /\ last.op = "update_memory" /\ last.result = "caught"
    /\ Len(Turns(last.user)) >= COMPRESS_THRESHOLD
    /\ Summary(last.user) # <<>>

\* C4: a step in which the engine call of the reply path fails ends the
\* invocation (none is left suspended), delivers nothing, appends no assistant
\* turn, sends the engine exactly one request (the reply request, no retry, no
\* compression) and leaves the user turn as the newest entry of the buffer.
C4_ReplyFailure ==
    [][ (last'.op = "message" /\ last'.result = "raised") =>
          LET u == last'.user
              before == Turns(u)
              after == DictGet(USER_TURNS', u, <<>>)
          IN /\ pc' = pc /\ sent' = sent /\ answer' = answer
             /\ calls' = calls + 1
             /\ engine'.kind = "reply"
             /\ USER_SUMMARY' = USER_SUMMARY
             /\ after # before
             /\ after # <<>>
             /\ after[Len(after)][1] = "user"
             /\ \E raw \in InboundTexts(u, count'[u]) :
                   after[Len(after)][2] = Strip(raw)
             /\ Len(after) = IF Len(before) < MAX_TURNS THEN Len(before) + 1
                             ELSE MAX_TURNS
             /\ \A i \in 1..(Len(after) - 1) :
                   after[i] = before[Len(before) - (Len(after) - 1) + i] ]_vars

\* a failed reply call on a buffer that already held turns
C4_Witness ==
    /\ last.op = "message" /\ last.result = "raised"
    /\ Len(Turns(last.user)) >= 3

\* C5: whenever the memory update of an invocation is about to run, and in
\* every step that runs it (skipped, compressed or failed), the transport has
\* already delivered exactly one reply for that invocation, the stripped text of
\* the engine's response; the memory update sends nothing.
C5_ReplyBeforeCompression ==
    /\ [](\A h \in Handlers :
            pc[h] = "memory" => sent[h] = <<Strip(resp[h])>>)
    /\ [][ last'.op = "update_memory" =>
             /\ cmdReply' = <<>>
             /\ \E h \in Handlers :
                   /\ pc[h] = "memory" /\ pc'[h] = "idle"
                   /\ user_id[h] = last'.user
                   /\ sent[h] = <<Strip(resp[h])>> ]_vars

\* the reply is out and the compression is about to run for real
C5_Witness ==
    \E h \in Handlers :
        /\ pc[h] = "memory"
        /\ sent[h] = <<answer[h]>>
        /\ Len(Turns(user_id[h])) >= COMPRESS_THRESHOLD

\* C6: a step in which the compression succeeds starts from ten stored turns
\* or more, leaves the last 6 turns of the buffer it read, and leaves a summary
\* of which the previous summary is a prefix: the engine's stripped text is
\* joined after it by a newline (no newline when either side is empty).
C6_CompressionEffect ==
    [][ (last'.op = "update_memory" /\ last'.result = "compressed") =>
          LET u == last'.user
              turns == Turns(u)
              prev == Summary(u)
              new == DictGet(USER_SUMMARY', u, <<>>)
              kept == DictGet(USER_TURNS', u, <<>>)
          IN /\ Len(turns) >= COMPRESS_THRESHOLD
             /\ Len(kept) = KEEP_AFTER_COMPRESS
             /\ \A i \in 1..Len(kept) :
                   kept[i] = turns[Len(turns) - KEEP_AFTER_COMPRESS + i]
             /\ IsPrefix(prev, new)
             /\ \E c \in CompressContents :
                   new = IF prev = <<>> \/ Strip(c) = <<>>
                         THEN prev \o Strip(c)
                         ELSE prev \o <<"\n">> \o Strip(c) ]_vars

\* a compression that joined a text to an existing summary
C6_Witness ==
    /\ last.op = "update_memory" /\ last.result = "compressed"
    /\ \E p \in SeedSummaries : \E c \in CompressContents :
          /\ Strip(c) # <<>>
          /\ Summary(last.user) = p \o <<"\n">> \o Strip(c)

\* C7: right after reset(u), whatever the session held, _get_history(u) is
\* the instruction message alone; reset is enabled in every state, on an absent
\* session too.
C7_ResetThenContext ==
    /\ \A u \in Users :
          (last.op = "reset" /\ last.user = u) =>
              /\ GetHistory(USER_SUMMARY, USER_TURNS, u) = <<InstructionMsg>>
              /\ u \notin DOMAIN USER_TURNS
              /\ u \notin DOMAIN USER_SUMMARY
    /\ \A u \in Users : ENABLED Reset(u)

\* a reset of the user whose session was the last one compressed
C7_Witness ==
    /\ last.op = "reset"
    /\ engine.kind = "compress"
    /\ Len(engine.messages) > COMPRESS_THRESHOLD
    /\ engine.messages[2].content[1] = ToString(last.user)

\* C8: the messages _get_history returns are the instruction message, then
\* one summary message exactly when the stored summary is non-empty, then the
\* stored turns in stored order with role and text unchanged; the call leaves
\* both maps as they were.
C8_ContextOrder ==
    /\ [](\A u \in Users :
            (last.op = "get_history" /\ last.user = u) =>
                LET k == IF Summary(u) # <<>> THEN 1 ELSE 0
                IN /\ Len(ctx) = 1 + k + Len(Turns(u))
                   /\ ctx[1] = InstructionMsg
                   /\ k = 1 => ctx[2] = [role |-> "system",
                                         content |-> SUMMARY_PREFIX \o Summary(u)]
                   /\ \A i \in 1..Len(Turns(u)) :
                         /\ ctx[1 + k + i].role = Turns(u)[i][1]
                         /\ ctx[1 + k + i].content = Turns(u)[i][2])
    /\ [][ last'.op = "get_history" =>
             USER_TURNS' = USER_TURNS /\ USER_SUMMARY' = USER_SUMMARY ]_vars

\* the context of a session with a summary and three turns
C8_Witness ==
    /\ last.op = "get_history"
    /\ Summary(last.user) # <<>>
    /\ Len(Turns(last.user)) = 3
    /\ Len(ctx) = 5

\* C9: a step taken for user A leaves the entries of every other user in both
\* maps as they were, and every message after the instruction in a request or
\* context built for A is A's summary message or one of A's turns.
OwnMessages(u, messages) ==
    \A i \in 2..Len(messages) :
        \/ messages[i] = [role |-> "system", content |-> SUMMARY_PREFIX \o Summary(u)]
        \/ <<messages[i].role, messages[i].content>>
              \in Range(Turns(u)) \cup Range(DictGet(USER_TURNS', u, <<>>))

C9_Isolation ==
    [][ \A a \in Users : last'.user = a =>
          /\ \A b \in Users \ {a} :
                /\ (b \in DOMAIN USER_TURNS') = (b \in DOMAIN USER_TURNS)
                /\ (b \in DOMAIN USER_SUMMARY') = (b \in DOMAIN USER_SUMMARY)
                /\ DictGet(USER_TURNS', b, <<>>) = Turns(b)
                /\ DictGet(USER_SUMMARY', b, <<>>) = Summary(b)
          /\ engine' # engine => OwnMessages(a, engine'.messages)
          /\ last'.op = "get_history" => OwnMessages(a, ctx') ]_vars

\* a compression for one user while another user holds turns and a summary
C9_Witness ==
    /\ last.op = "update_memory" /\ last.result = "compressed"
    /\ \E b \in Users \ {last.user} :
          b \in DOMAIN USER_TURNS /\ b \in DOMAIN USER_SUMMARY

====
